---- MODULE Spec2Model ----
(***************************************************************************)
(* Model of the luminara-homebase team tracking scripts:                   *)
(*   scripts/gap_filler.py              incremental merge controller       *)
(*   scripts/parse_teams.py             full rebuild of the partitions     *)
(*   scripts/team_interfaces_tracker.py snapshot diff + per-team sinks     *)
(*                                                                         *)
(* Conventions.                                                            *)
(*  - A timestamp is an ISO-8601 string compared lexically by the code.    *)
(*    It is modelled by a natural number with the same order; 0 is the     *)
(*    empty string "" that entry.get("timestamp", "") yields for an entry  *)
(*    without a timestamp.  Python None in the cursor field is NoneTs.     *)
(*  - A team name is a sequence of one-character strings, so that the      *)
(*    file-name sanitisation re.sub(r'[^\w\-]', '_', team) is modelled     *)
(*    character by character.  Python None and "key absent" are two        *)
(*    reserved values that are no character sequence.                      *)
(*  - A dict that is only iterated (team_data, team_changes) is modelled   *)
(*    as the sequence of its (key, value) pairs in insertion order, which  *)
(*    is the order Python iterates it in.                                  *)
(***************************************************************************)
EXTENDS Integers, Sequences, FiniteSets, TLC

\* ------------------------------------------------------------- bounds
MaxLog == 2        \* entries ever appended to changes.json
MaxClock == 2      \* wall clock values 1..MaxClock
MaxCalls == 2      \* gap_filler runs
MaxRuns == 2       \* tracker runs
MaxRebuilds == 1   \* parse_teams runs
MaxOps == 2        \* script runs of any kind in one behaviour
MaxDepth == 2      \* nesting of the snapshots detect_changes is called on
MaxSteps == 3      \* steps below the root of a path create_change_record is called on
MaxReruns == 3     \* tracker runs in a row, with no other script between them

\* ------------------------------------------------------------- values
NoneTs == -1       \* last_processed_timestamp: None
EmptyTs == 0       \* the timestamp ""

\* Python None, and "this key is absent", where a string is expected: neither is
\* a sequence of characters
None == <<"<None>">>
Absent == <<"<absent>">>

\* string literals of the scripts, as sequences of characters
REQUIRED_VERSIONS ==
    <<"r","e","q","u","i","r","e","d","_","v","e","r","s","i","o","n","s">>
UNKNOWN == <<"u","n","k","n","o","w","n">>
Dash == <<"-">>
Dot == <<".">>
S_networks == <<"n","e","t","w","o","r","k","s">>
S_network == <<"n","e","t","w","o","r","k">>
S_namada == <<"n","a","m","a","d","a">>
S_housefire == <<"h","o","u","s","e","f","i","r","e">>
S_interface == <<"i","n","t","e","r","f","a","c","e">>
S_team == <<"t","e","a","m">>
S_settings == <<"s","e","t","t","i","n","g","s">>
S_service == <<"s","e","r","v","i","c","e">>
S_status == <<"s","t","a","t","u","s">>
S_latest_block_height ==
    <<"l","a","t","e","s","t","_","b","l","o","c","k","_","h","e","i","g","h","t">>
S_script_start_time == <<"s","c","r","i","p","t","_","s","t","a","r","t","_","t","i","m","e">>
S_script_end_time == <<"s","c","r","i","p","t","_","e","n","d","_","t","i","m","e">>
S_reference_latest_block_height ==
    <<"r","e","f","e","r","e","n","c","e","_","l","a","t","e","s","t","_","b","l","o","c","k","_","h","e","i","g","h","t">>
S_operator == <<"o","p","e","r","a","t","o","r">>
S_rpc == <<"r","p","c">>
S_null == <<"n","u","l","l">>
S_initial_state == <<"i","n","i","t","i","a","l","_","s","t","a","t","e">>
S_initial == <<"i","n","i","t","i","a","l">>
S_a == <<"a">>
S_b == <<"b">>

\* team names of the model: one of word characters, one that needs sanitising
TeamA == <<"A">>
TeamB == <<"B", " ">>

Digits == {"0", "1", "2", "3", "4", "5", "6", "7", "8", "9"}
Lower ==
    {"a", "b", "c", "d", "e", "f", "g", "h", "i", "j", "k", "l", "m",
     "n", "o", "p", "q", "r", "s", "t", "u", "v", "w", "x", "y", "z"}
Upper ==
    {"A", "B", "C", "D", "E", "F", "G", "H", "I", "J", "K", "L", "M",
     "N", "O", "P", "Q", "R", "S", "T", "U", "V", "W", "X", "Y", "Z"}
\* the characters the regular expression class \w matches
WordChars == Lower \cup Upper \cup Digits \cup {"_"}

\* re.sub(r'[^\w\-]', '_', team)
Sanitize(team) ==
    [i \in DOMAIN team |->
        IF team[i] \in WordChars \cup {"-"} THEN team[i] ELSE "_"]

\* the "Sanitize team name for filename" block of every writer
SafeTeamName(team) ==
    IF team = None THEN REQUIRED_VERSIONS ELSE Sanitize(team)

\* dict.get(key, default) on the "team" key of a record
GetTeam(item, default) ==
    IF item.team = Absent THEN default ELSE item.team

\* ------------------------------------------------------------- state
VARIABLES
    log,          \* changes.json: the global change log, a list of entries
    stateStore,   \* gap_filler_state.json: <<>> when absent or unreadable
    partsJson,    \* team-data/json/<file>.json, one list per file
    clock,        \* the wall clock
    calls,        \* number of gap_filler runs so far
    outcome,      \* how the last gap_filler run ended
    new_entries,  \* the subsequence the last gap_filler run processed
    partsSql,     \* team-data/sql/<file>.sql, one list of INSERT rows per file
    teamState,    \* team_state.json: the previous snapshot, EmptyMap when absent
    statusFile,   \* interface-status.json as the last tracker run read it
    runs,         \* number of tracker runs so far
    rebuilds,     \* number of parse_teams runs so far
    diffOld,      \* detect_changes called on its own: the first argument,
    diffNew,      \* the second argument,
    diffOut,      \* the list it returned,
    returned,     \* whether it has returned,
    edit,         \* and how the second argument was derived from the first
    infoPath,     \* create_change_record called on its own: path_parts,
    infoState,    \* the state argument,
    infoOut,      \* and <<the record>> once it has returned
    merge         \* gap_filler main run step by step: where it is, and its locals

\* the arguments and the result of a call of detect_changes
diffVars == <<diffOld, diffNew, diffOut, returned, edit>>

infoVars == <<infoPath, infoState, infoOut>>

vars == <<log, stateStore, partsJson, clock, calls, outcome, new_entries,
          partsSql, teamState, statusFile, runs, rebuilds, diffVars, infoVars, merge>>

\* ---------------------------------------------------- gap_filler.py
\* load_gap_filler_state
DefaultState ==
    [last_processed_timestamp |-> NoneTs,
     migration_completed |-> FALSE,
     total_entries_processed |-> 0]

load_gap_filler_state(store) ==
    IF store = <<>> THEN DefaultState ELSE store[1]

\* load_json_file: the file holds a list, or the call returns []
load_json_file(file) == file

\* append_to_json_file
append_to_json_file(parts, data, path) ==
    [parts EXCEPT ![path] = @ \o data]

\* team_data[team].append(team_entry) on a defaultdict(list)
DictAppend(team_data, key, team_entry) ==
    IF \E i \in DOMAIN team_data : team_data[i].key = key
    THEN [i \in DOMAIN team_data |->
            IF team_data[i].key = key
            THEN [team_data[i] EXCEPT !.data = Append(@, team_entry)]
            ELSE team_data[i]]
    ELSE Append(team_data, [key |-> key, data |-> <<team_entry>>])

\* the inner loop of parse_changes_by_team over one entry's interfaces or changes
RECURSIVE ParseItems(_, _, _, _)
ParseItems(team_data, entry, items, i) ==
    IF i > Len(items) THEN team_data
    ELSE
        LET team == GetTeam(items[i], REQUIRED_VERSIONS)
            team_entry ==
                IF entry.type = "initial"
                THEN [timestamp |-> entry.timestamp, type |-> "initial",
                      team |-> team, interface_data |-> items[i]]
                ELSE [timestamp |-> entry.timestamp, type |-> "change",
                      change_data |-> items[i]]
        IN  IF team = Dash
            THEN ParseItems(team_data, entry, items, i + 1)
            ELSE ParseItems(DictAppend(team_data, team, team_entry), entry, items, i + 1)

RECURSIVE ParseEntries(_, _, _)
ParseEntries(team_data, changes_data, n) ==
    IF n > Len(changes_data) THEN team_data
    ELSE
        LET entry == changes_data[n]
        IN  IF entry.type \in {"initial", "change"}
            THEN ParseEntries(ParseItems(team_data, entry, entry.items, 1),
                              changes_data, n + 1)
            ELSE ParseEntries(team_data, changes_data, n + 1)

parse_changes_by_team(changes_data) == ParseEntries(<<>>, changes_data, 1)

\* `not last_timestamp`: None and "" are both falsy
Falsy(last_timestamp) == last_timestamp \in {NoneTs, EmptyTs}

get_new_entries_since_timestamp(changes_data, last_timestamp) ==
    IF Falsy(last_timestamp) THEN changes_data
    ELSE SelectSeq(changes_data, LAMBDA entry : entry.timestamp > last_timestamp)

\* faulty variant: the timestamp of the first entry instead of the maximum
MaxTimestampFirst(entries) == entries[1].timestamp

\* max(entry.get("timestamp", "") for entry in new_entries)
RECURSIVE MaxTimestamp(_)
MaxTimestamp(entries) ==
    IF Len(entries) = 1 THEN entries[1].timestamp
    ELSE LET m == MaxTimestamp(Tail(entries))
         IN  IF entries[1].timestamp >= m THEN entries[1].timestamp ELSE m

\* the "Append to team-specific files" loop of main
RECURSIVE AppendTeams(_, _, _, _)
AppendTeams(parts, team_changes, i, entries_processed) ==
    IF i > Len(team_changes)
    THEN [parts |-> parts, entries_processed |-> entries_processed]
    ELSE
        LET data == team_changes[i].data
            json_path == SafeTeamName(team_changes[i].key)
        IN  IF data # <<>>
            THEN AppendTeams(append_to_json_file(parts, data, json_path),
                             team_changes, i + 1, entries_processed + Len(data))
            ELSE AppendTeams(parts, team_changes, i + 1, entries_processed)

\* faulty variant: count the raw log entries considered
EntriesProcessedRaw(appended, fresh) == Len(fresh)

\* entries_processed as main accumulates it: len(data) per appended team list
EntriesProcessed(appended, fresh) == appended

\* the state main saves after a run that had new entries
UpdatedState(state, fresh, entries_processed) ==
    [state EXCEPT
        !.last_processed_timestamp = MaxTimestamp(fresh),
        !.total_entries_processed = @ + entries_processed]

\* faulty variant: no migration gate
PassesGateAlways(state) == TRUE

\* whether main goes past the migration gate
PassesGate(state) == state.migration_completed

\* main: one run, as a function of the three files it reads
GapFillerRun(store, logFile, parts) ==
    LET state == load_gap_filler_state(store)
        last_timestamp == state.last_processed_timestamp
        changes_data == load_json_file(logFile)
        fresh == get_new_entries_since_timestamp(changes_data, last_timestamp)
        team_changes == parse_changes_by_team(fresh)
        done == AppendTeams(parts, team_changes, 1, 0)
        entries_processed == EntriesProcessed(done.entries_processed, fresh)
    IN  IF ~PassesGate(state)
        THEN [outcome |-> "gated", store |-> store, parts |-> parts,
              new_entries |-> <<>>]
        ELSE IF changes_data = <<>>
        THEN [outcome |-> "noload", store |-> store, parts |-> parts,
              new_entries |-> <<>>]
        ELSE IF fresh = <<>>
        THEN [outcome |-> "nonew", store |-> store, parts |-> parts,
              new_entries |-> <<>>]
        ELSE [outcome |-> "done",
              store |-> <<UpdatedState(state, fresh, entries_processed)>>,
              parts |-> done.parts,
              new_entries |-> fresh]

\* ============================================ team_interfaces_tracker.py
\* ------------------------------------------------ JSON values
\* A JSON value is tagged with its Python type.
VNull == [k |-> "null"]
VBool(b) == [k |-> "bool", b |-> b]
VNum(n) == [k |-> "num", n |-> n]
VStr(s) == [k |-> "str", s |-> s]
VList(l) == [k |-> "list", l |-> l]
VMap(m) == [k |-> "map", m |-> m]
EmptyMap == VMap(<<>>)

IsDict(v) == v.k = "map"
\* faulty variant: no value is taken for a list
IsListNever(v) == FALSE

IsList(v) == v.k = "list"

\* bool(v): None, 0, "", [] and {} are falsy
Truthy(v) ==
    CASE v.k = "null" -> FALSE
      [] v.k = "bool" -> v.b
      [] v.k = "num" -> v.n # 0
      [] v.k = "str" -> v.s # <<>>
      [] v.k = "list" -> v.l # <<>>
      [] v.k = "map" -> DOMAIN v.m # {}

\* a string or None read from a JSON value; the model's snapshots hold only
\* strings and null under "team", "service" and "network"
StrOf(v) == IF v.k = "str" THEN v.s ELSE None

\* dict.get(key, default), for a string result
GetStr(v, key, default) ==
    IF key \in DOMAIN v.m THEN StrOf(v.m[key]) ELSE default

\* dict.get(key, []), iterated
GetList(v, key) ==
    IF key \in DOMAIN v.m /\ IsList(v.m[key]) THEN v.m[key].l ELSE <<>>

\* the keys of the model's snapshots, in the order dicts are iterated
KeyOrder ==
    <<S_networks, S_network, S_interface, S_team, S_status, S_settings, S_service,
      S_latest_block_height, S_script_start_time, REQUIRED_VERSIONS, S_namada,
      S_a, S_b, TeamA, Dash>>

\* faulty variant: no key is iterated
KeysNone(v) == <<>>

\* `for key in d`
Keys(v) == SelectSeq(KeyOrder, LAMBDA key : key \in DOMAIN v.m)

\* v[key] for a string key: the value, or the exception Python raises
GetItemStr(v, key) ==
    IF IsDict(v)
    THEN IF key \in DOMAIN v.m THEN [err |-> "none", v |-> v.m[key]]
         ELSE [err |-> "KeyError", v |-> VNull]
    ELSE [err |-> "TypeError", v |-> VNull]

\* v[i] for an integer i >= 0
GetItemInt(v, i) ==
    CASE v.k = "list" ->
            IF i < Len(v.l) THEN [err |-> "none", v |-> v.l[i + 1]]
            ELSE [err |-> "IndexError", v |-> VNull]
      [] v.k = "str" ->
            IF i < Len(v.s) THEN [err |-> "none", v |-> VStr(<<v.s[i + 1]>>)]
            ELSE [err |-> "IndexError", v |-> VNull]
      [] v.k = "map" -> [err |-> "KeyError", v |-> VNull]
      [] OTHER -> [err |-> "TypeError", v |-> VNull]

\* len(v)
PyLen(v) ==
    CASE v.k = "list" -> [err |-> "none", n |-> Len(v.l)]
      [] v.k = "str" -> [err |-> "none", n |-> Len(v.s)]
      [] v.k = "map" -> [err |-> "none", n |-> Cardinality(DOMAIN v.m)]
      [] OTHER -> [err |-> "TypeError", n |-> 0]

\* "networks" in v
Contains(v, key) ==
    CASE v.k = "map" -> [err |-> "none", b |-> key \in DOMAIN v.m]
      [] v.k = "list" -> [err |-> "none", b |-> \E i \in DOMAIN v.l : v.l[i] = VStr(key)]
      [] v.k = "str" ->
            [err |-> "none",
             b |-> \E i \in 0..Len(v.s) :
                      /\ i + Len(key) <= Len(v.s)
                      /\ SubSeq(v.s, i + 1, i + Len(key)) = key]
      [] OTHER -> [err |-> "TypeError", b |-> FALSE]

\* str.isdigit()
isdigit(str) == str # <<>> /\ \A i \in DOMAIN str : str[i] \in Digits

DigitValue(c) ==
    CASE c = "0" -> 0 [] c = "1" -> 1 [] c = "2" -> 2 [] c = "3" -> 3 [] c = "4" -> 4
      [] c = "5" -> 5 [] c = "6" -> 6 [] c = "7" -> 7 [] c = "8" -> 8 [] c = "9" -> 9

\* int(str), for a string of digits
RECURSIVE int(_)
int(str) ==
    IF str = <<>> THEN 0
    ELSE 10 * int(SubSeq(str, 1, Len(str) - 1)) + DigitValue(str[Len(str)])

DigitChar(d) ==
    CASE d = 0 -> "0" [] d = 1 -> "1" [] d = 2 -> "2" [] d = 3 -> "3" [] d = 4 -> "4"
      [] d = 5 -> "5" [] d = 6 -> "6" [] d = 7 -> "7" [] d = 8 -> "8" [] d = 9 -> "9"

\* str(i), for i >= 0
RECURSIVE str(_)
str(i) ==
    IF i < 10 THEN <<DigitChar(i)>> ELSE Append(str(i \div 10), DigitChar(i % 10))

\* path_parts.index(x, start), 1-based; used only where x occurs from start on
IndexFrom(path_parts, x, start) ==
    CHOOSE i \in start..Len(path_parts) :
        /\ path_parts[i] = x
        /\ \A j \in start..(i - 1) : path_parts[j] # x

InPath(path_parts, x, start) == \E i \in start..Len(path_parts) : path_parts[i] = x

\* ".".join(path_parts)
RECURSIVE JoinDots(_)
JoinDots(path_parts) ==
    IF path_parts = <<>> THEN <<>>
    ELSE IF Len(path_parts) = 1 THEN path_parts[1]
    ELSE path_parts[1] \o Dot \o JoinDots(Tail(path_parts))

\* ------------------------------------------------ IGNORED_FIELDS, TRACKED_NETWORKS
IGNORED_FIELDS ==
    {S_latest_block_height, S_script_start_time, S_script_end_time,
     S_reference_latest_block_height}

TRACKED_NETWORKS == {S_namada}

\* filter_networks
filter_networks(state, networks) ==
    IF Truthy(state) /\ IsDict(state) /\ S_networks \in DOMAIN state.m
    THEN VMap([key \in DOMAIN state.m |->
                 IF key = S_networks
                 THEN VList(SelectSeq(GetList(state, S_networks),
                                      LAMBDA n : GetStr(n, S_network, None) \in networks))
                 ELSE state.m[key]])
    ELSE state

\* ------------------------------------------------ get_change_info
\* faulty variant: the marker rule never names a team
TeamMarkerRuleNone(path_parts) == [team |-> None, service |-> None]

\* the literal "team" marker rule (lines 82-91)
TeamMarkerRule(path_parts) ==
    IF InPath(path_parts, S_team, 1)
    THEN LET team_idx == IndexFrom(path_parts, S_team, 1)
         IN  IF team_idx + 1 <= Len(path_parts)
             THEN [team |-> path_parts[team_idx + 1],
                   service |->
                      IF InPath(path_parts, S_service, team_idx)
                      THEN LET service_idx == IndexFrom(path_parts, S_service, team_idx)
                           IN  IF service_idx + 1 <= Len(path_parts)
                               THEN path_parts[service_idx + 1]
                               ELSE None
                      ELSE S_interface]
             ELSE [team |-> None, service |-> None]
    ELSE [team |-> None, service |-> None]

\* the settings lookup of one loop iteration (lines 98-105); acc holds team,
\* service and the exception raised so far
SettingsLookup(path_parts, interface_data, acc) ==
    IF InPath(path_parts, S_settings, 1)
    THEN LET settings_idx == IndexFrom(path_parts, S_settings, 1)
         IN  IF settings_idx + 1 <= Len(path_parts) /\ isdigit(path_parts[settings_idx + 1])
             THEN LET service_idx == int(path_parts[settings_idx + 1])
                      settings == GetItemStr(interface_data, S_settings)
                      n == PyLen(settings.v)
                      entry == GetItemInt(settings.v, service_idx)
                      service == GetItemStr(entry.v, S_service)
                  IN  IF settings.err # "none" THEN [acc EXCEPT !.err = settings.err]
                      ELSE IF n.err # "none" THEN [acc EXCEPT !.err = n.err]
                      ELSE IF ~(service_idx < n.n) THEN acc
                      ELSE IF entry.err # "none" THEN [acc EXCEPT !.err = entry.err]
                      ELSE IF service.err # "none" THEN [acc EXCEPT !.err = service.err]
                      ELSE [acc EXCEPT !.service = StrOf(service.v)]
             ELSE acc
    ELSE [acc EXCEPT !.service = S_interface]

\* which network's interface list the positional lookup reads
LookupNetwork(path_parts) == 0

\* one iteration of `for i, part in enumerate(path_parts)` that matches (lines 95-105)
InterfaceLookup(path_parts, current_state, i, acc) ==
    LET interface_idx == int(path_parts[i + 1])
        networks == GetItemStr(current_state, S_networks)
        network == GetItemInt(networks.v, LookupNetwork(path_parts))
        interfaces == GetItemStr(network.v, S_interface)
        interface_data == GetItemInt(interfaces.v, interface_idx)
        team == GetItemStr(interface_data.v, S_team)
    IN  IF networks.err # "none" THEN [acc EXCEPT !.err = networks.err]
        ELSE IF network.err # "none" THEN [acc EXCEPT !.err = network.err]
        ELSE IF interfaces.err # "none" THEN [acc EXCEPT !.err = interfaces.err]
        ELSE IF interface_data.err # "none" THEN [acc EXCEPT !.err = interface_data.err]
        ELSE IF team.err # "none" THEN [acc EXCEPT !.err = team.err]
        ELSE SettingsLookup(path_parts, interface_data.v,
                            [acc EXCEPT !.team = StrOf(team.v)])

\* the loop of the positional fallback; an exception ends it
RECURSIVE FallbackLoop(_, _, _, _)
FallbackLoop(path_parts, current_state, i, acc) ==
    IF i > Len(path_parts) \/ acc.err # "none" THEN acc
    ELSE IF /\ path_parts[i] = S_interface
            /\ i + 1 <= Len(path_parts)
            /\ isdigit(path_parts[i + 1])
         THEN FallbackLoop(path_parts, current_state, i + 1,
                           InterfaceLookup(path_parts, current_state, i, acc))
         ELSE FallbackLoop(path_parts, current_state, i + 1, acc)

\* the exceptions the try block of get_change_info catches
Caught == {"none", "KeyError", "IndexError", "ValueError"}

\* the positional fallback of get_change_info (lines 93-105), entered when the
\* marker rule found no team; `has` is `current_state and "networks" in current_state`
PositionalFallback(path_parts, current_state, start, has) ==
    IF start.team # None THEN start
    ELSE IF has.err # "none" THEN [start EXCEPT !.err = has.err]
    ELSE IF has.b THEN FallbackLoop(path_parts, current_state, 1, start)
    ELSE start

\* the tuple get_change_info returns; raised when an exception leaves the try block
ChangeInfo(acc, field) ==
    [team |-> acc.team, service |-> acc.service, field |-> field,
     raised |-> acc.err \notin Caught]

\* get_change_info: team, service, field, and whether an exception leaves it
get_change_info(path_parts, current_state) ==
    IF path_parts = <<>>
    THEN [team |-> None, service |-> None, field |-> None, raised |-> TRUE]
    ELSE IF path_parts[1] = REQUIRED_VERSIONS
    THEN [team |-> None,
          service |-> IF Len(path_parts) > 1 THEN path_parts[2] ELSE None,
          field |-> path_parts[Len(path_parts)], raised |-> FALSE]
    ELSE IF path_parts[1] = S_networks
    THEN ChangeInfo(
            PositionalFallback(
                path_parts, current_state,
                [team |-> TeamMarkerRule(path_parts).team,
                 service |-> TeamMarkerRule(path_parts).service, err |-> "none"],
                IF Truthy(current_state) THEN Contains(current_state, S_networks)
                ELSE [err |-> "none", b |-> FALSE]),
            path_parts[Len(path_parts)])
    ELSE [team |-> None, service |-> None, field |-> path_parts[Len(path_parts)],
          raised |-> FALSE]

\* faulty variant: always the raw dotted path
build_readable_path_raw(path_parts, operator, service) == JoinDots(path_parts)

\* build_readable_path
build_readable_path(path_parts, operator, service) ==
    IF path_parts[1] = REQUIRED_VERSIONS THEN JoinDots(path_parts)
    ELSE IF operator = None \/ operator = <<>> THEN JoinDots(path_parts)
    ELSE IF service = S_interface
    THEN S_namada \o Dot \o S_operator \o Dot \o operator \o Dot \o S_interface \o Dot
         \o path_parts[Len(path_parts)]
    ELSE IF service # None /\ service # <<>>
    THEN S_namada \o Dot \o S_operator \o Dot \o operator \o Dot \o S_service \o Dot
         \o service \o Dot \o path_parts[Len(path_parts)]
    ELSE S_namada \o Dot \o S_operator \o Dot \o operator \o Dot \o JoinDots(path_parts)

\* faulty variant: the record carries the two values the wrong way round
ChangeRecordSwapped(info, path_parts, change_type, old_value, new_value) ==
    [team |-> info.team,
     service |-> info.service,
     field |-> info.field,
     full_path |-> IF info.raised THEN None
                   ELSE build_readable_path(path_parts, info.team, info.service),
     type |-> change_type,
     old_value |-> new_value,
     new_value |-> old_value,
     raised |-> info.raised]

\* the dict create_change_record returns, given what get_change_info returned
ChangeRecord(info, path_parts, change_type, old_value, new_value) ==
    [team |-> info.team,
     service |-> info.service,
     field |-> info.field,
     full_path |-> IF info.raised THEN None
                   ELSE build_readable_path(path_parts, info.team, info.service),
     type |-> change_type,
     old_value |-> old_value,
     new_value |-> new_value,
     raised |-> info.raised]

\* create_change_record; raised when get_change_info raises
create_change_record(path_parts, change_type, old_value, new_value, state) ==
    ChangeRecord(get_change_info(path_parts, state), path_parts, change_type,
                 old_value, new_value)

\* ------------------------------------------------ detect_changes
\* changes.extend over a sequence of lists
RECURSIVE Flatten(_)
Flatten(lists) ==
    IF lists = <<>> THEN <<>> ELSE lists[1] \o Flatten(Tail(lists))

\* faulty variant: every pair of values compares unequal
PyNotEqualAlways(a, b) == TRUE

\* the number a bool or a number compares as: True == 1 and False == 0
NumOf(v) == IF v.k = "bool" THEN (IF v.b THEN 1 ELSE 0) ELSE v.n

\* a == b on JSON values
RECURSIVE PyEqual(_, _)
PyEqual(a, b) ==
    CASE a.k \in {"num", "bool"} /\ b.k \in {"num", "bool"} -> NumOf(a) = NumOf(b)
      [] a.k = "list" /\ b.k = "list" ->
            /\ Len(a.l) = Len(b.l)
            /\ \A i \in DOMAIN a.l : PyEqual(a.l[i], b.l[i])
      [] a.k = "map" /\ b.k = "map" ->
            /\ DOMAIN a.m = DOMAIN b.m
            /\ \A key \in DOMAIN a.m : PyEqual(a.m[key], b.m[key])
      [] OTHER -> a = b

\* a != b on JSON values
PyNotEqual(a, b) == ~PyEqual(a, b)

\* faulty variant: no key is ignored
IsIgnoredNever(key) == FALSE

\* key in IGNORED_FIELDS
IsIgnored(key) == key \in IGNORED_FIELDS

RECURSIVE detect_changes(_, _, _, _)
detect_changes(old_state, new_state, path, root_state) ==
    IF IsDict(old_state) /\ IsDict(new_state)
    THEN
        LET added == SelectSeq(Keys(new_state),
                        LAMBDA key : key \notin DOMAIN old_state.m /\ ~IsIgnored(key))
            removed == SelectSeq(Keys(old_state),
                        LAMBDA key : key \notin DOMAIN new_state.m /\ ~IsIgnored(key))
            common == SelectSeq(Keys(old_state),
                        LAMBDA key : /\ key \in DOMAIN new_state.m
                                     /\ ~IsIgnored(key)
                                     /\ PyNotEqual(old_state.m[key], new_state.m[key]))
        IN  [i \in 1..Len(added) |->
                create_change_record(Append(path, added[i]), "added", VNull,
                                     new_state.m[added[i]], root_state)]
            \o [i \in 1..Len(removed) |->
                create_change_record(Append(path, removed[i]), "removed",
                                     old_state.m[removed[i]], VNull, root_state)]
            \o Flatten([i \in 1..Len(common) |->
                detect_changes(old_state.m[common[i]], new_state.m[common[i]],
                               Append(path, common[i]), root_state)])
    ELSE IF IsList(old_state) /\ IsList(new_state)
    THEN
        LET m == Len(old_state.l)
            n == Len(new_state.l)
            shorter == IF m < n THEN m ELSE n
        IN  Flatten([i \in 1..shorter |->
                detect_changes(old_state.l[i], new_state.l[i],
                               Append(path, str(i - 1)), root_state)])
            \o [j \in 1..(IF n > m THEN n - m ELSE 0) |->
                create_change_record(Append(path, str(m + j - 1)), "added", VNull,
                                     new_state.l[m + j], root_state)]
            \o [j \in 1..(IF m > n THEN m - n ELSE 0) |->
                create_change_record(Append(path, str(n + j - 1)), "removed",
                                     old_state.l[n + j], VNull, root_state)]
    ELSE IF PyNotEqual(old_state, new_state)
    THEN <<create_change_record(path, "modified", old_state, new_state, root_state)>>
    ELSE <<>>

\* detect_changes(previous_state, current_state): path [] and root_state the new state
DetectChanges(old_state, new_state) == detect_changes(old_state, new_state, <<>>, new_state)

\* whether the call ends in an exception instead of a list
Raises(changes) == \E i \in DOMAIN changes : changes[i].raised

\* ------------------------------------------------ sinks
\* generate_sql_statement: the row of one INSERT; a column the statement
\* writes as an unquoted null is None
generate_sql_statement(change, timestamp) ==
    [timestamp |-> timestamp,
     team |-> IF change.team # None /\ change.team # <<>> THEN change.team ELSE None,
     service |-> IF change.service # None /\ change.service # <<>>
                 THEN change.service ELSE None,
     field |-> change.field,
     full_path |-> change.full_path,
     change_type |-> change.type,
     old_value |-> change.old_value,
     new_value |-> change.new_value]

\* append_to_file
append_to_file(parts, content, path) ==
    [parts EXCEPT ![path] = @ \o content]

\* `if team == "-": continue` of the tracker's writers
SkipsTeam(team) == team = Dash

\* save_team_changes: team_changes is the grouping dict, in insertion order
RECURSIVE save_team_changes(_, _, _, _)
save_team_changes(sinks, team_changes, timestamp, i) ==
    IF i > Len(team_changes) THEN sinks
    ELSE
        LET team == team_changes[i].key
            changes == team_changes[i].data
            safe_team_name == SafeTeamName(team)
            team_entry == [timestamp |-> timestamp, type |-> "change", changes |-> changes]
            sql_statements ==
                [j \in DOMAIN changes |-> generate_sql_statement(changes[j], timestamp)]
        IN  IF changes = <<>> \/ SkipsTeam(team)
            THEN save_team_changes(sinks, team_changes, timestamp, i + 1)
            ELSE save_team_changes(
                    [json |-> append_to_json_file(sinks.json, <<team_entry>>, safe_team_name),
                     sql |-> append_to_file(sinks.sql, sql_statements, safe_team_name)],
                    team_changes, timestamp, i + 1)

\* team_changes[team].append(change) for every detected change (lines 357-360)
RECURSIVE GroupChanges(_, _, _)
GroupChanges(team_changes, detected_changes, i) ==
    IF i > Len(detected_changes) THEN team_changes
    ELSE GroupChanges(DictAppend(team_changes, detected_changes[i].team,
                                 detected_changes[i]),
                      detected_changes, i + 1)

\* every interface of every network, in iteration order (lines 305-309)
RECURSIVE AllInterfaces(_)
AllInterfaces(networks) ==
    IF networks = <<>> THEN <<>>
    ELSE GetList(networks[1], S_interface) \o AllInterfaces(Tail(networks))

\* team_initial_states (lines 304-319)
RECURSIVE GroupInitial(_, _, _, _)
GroupInitial(team_initial_states, interfaces, timestamp, i) ==
    IF i > Len(interfaces) THEN team_initial_states
    ELSE
        LET team == GetStr(interfaces[i], S_team, UNKNOWN)
            team_entry == [timestamp |-> timestamp, type |-> "initial", team |-> team,
                           interface_data |-> interfaces[i]]
        IN  GroupInitial(DictAppend(team_initial_states, team, team_entry),
                         interfaces, timestamp, i + 1)

\* "Save initial states to team files" (lines 322-350); `interface` is the
\* variable the grouping loop left behind: the last interface iterated
RECURSIVE SaveInitial(_, _, _, _, _)
SaveInitial(sinks, team_initial_states, interface, timestamp, i) ==
    IF i > Len(team_initial_states) THEN sinks
    ELSE
        LET team == team_initial_states[i].key
            entries == team_initial_states[i].data
            safe_team_name == SafeTeamName(team)
            named == team # None /\ team # <<>>
            sql_statement ==
                [timestamp |-> timestamp,
                 team |-> IF named THEN team ELSE S_null,
                 service |-> S_interface,
                 field |-> S_initial_state,
                 full_path |-> S_namada \o Dot \o S_operator \o Dot
                               \o (IF named THEN team ELSE UNKNOWN) \o Dot \o S_interface,
                 change_type |-> "initial",
                 old_value |-> VStr(S_null),
                 new_value |-> interface]
        IN  IF SkipsTeam(team)
            THEN SaveInitial(sinks, team_initial_states, interface, timestamp, i + 1)
            ELSE SaveInitial(
                    [json |-> append_to_json_file(sinks.json, entries, safe_team_name),
                     sql |-> append_to_file(sinks.sql, <<sql_statement>>, safe_team_name)],
                    team_initial_states, interface, timestamp, i + 1)

\* the initial path of main (lines 300-352)
InitialRun(current_state, interfaces, sinks, timestamp) ==
    [result |-> "initial",
     sinks |-> IF interfaces = <<>> THEN sinks
               ELSE SaveInitial(sinks, GroupInitial(<<>>, interfaces, timestamp, 1),
                                interfaces[Len(interfaces)], timestamp, 1),
     state |-> current_state]

\* the change path of main (lines 353-367) and the saving of the state (line 374)
ChangeRun(previous, current_state, detected_changes, sinks, timestamp) ==
    IF Raises(detected_changes)
    THEN [result |-> "raised", sinks |-> sinks, state |-> previous]
    ELSE [result |-> IF detected_changes = <<>> THEN "nochange" ELSE "changes",
          sinks |-> save_team_changes(sinks, GroupChanges(<<>>, detected_changes, 1),
                                      timestamp, 1),
          state |-> current_state]

\* main, given the filtered current state
FilteredRun(previous, current_state, sinks, timestamp) ==
    IF ~Truthy(previous)
    THEN InitialRun(current_state,
                    AllInterfaces(GetList(current_state, S_networks)), sinks, timestamp)
    ELSE ChangeRun(previous, current_state,
                   DetectChanges(filter_networks(previous, TRACKED_NETWORKS),
                                 current_state),
                   sinks, timestamp)

\* main of the tracker: one run on the snapshot `source`, as a function of the
\* files it reads; the previous-snapshot store is EmptyMap when absent
TrackerRun(source, previous, sinks, timestamp) ==
    IF ~Truthy(source)
    THEN [result |-> "noload", sinks |-> sinks, state |-> previous]
    ELSE FilteredRun(previous, filter_networks(source, TRACKED_NETWORKS), sinks,
                     timestamp)

\* ---------------------------------------------------- parse_teams.py
\* what re.search(r"'([^']*)', '([^']*)', '([^']*)'", statement).group(2) is: the
\* middle one of the first three consecutive quoted columns.  timestamp, field,
\* full_path and change_type are always quoted; team and service are quoted
\* unless null.  (Column values of the model hold no quote and no semicolon.)
SqlTeamMatch(row) ==
    IF row.team # None /\ row.service # None THEN row.team
    ELSE IF row.service # None THEN row.field
    ELSE row.full_path

\* parse_sql_by_team
RECURSIVE parse_sql_by_team(_, _, _)
parse_sql_by_team(team_sql, statements, i) ==
    IF i > Len(statements) THEN team_sql
    ELSE
        LET team == SqlTeamMatch(statements[i])
        IN  IF team # <<>> /\ team # S_null /\ team # Dash
            THEN parse_sql_by_team(DictAppend(team_sql, team, statements[i]),
                                   statements, i + 1)
            ELSE IF team = S_null
            THEN parse_sql_by_team(DictAppend(team_sql, REQUIRED_VERSIONS, statements[i]),
                                   statements, i + 1)
            ELSE parse_sql_by_team(team_sql, statements, i + 1)

\* save_json_file / open(path, 'w') for every group: the file is replaced
RECURSIVE SaveGroups(_, _, _)
SaveGroups(parts, groups, i) ==
    IF i > Len(groups) THEN parts
    ELSE SaveGroups([parts EXCEPT ![SafeTeamName(groups[i].key)] = groups[i].data],
                    groups, i + 1)

\* main of parse_teams.py: the full rebuild from changes.json and changes.sql
ParseTeamsRun(logFile, sqlFile, sinks) ==
    LET changes_data == load_json_file(logFile)
        team_changes == parse_changes_by_team(changes_data)
        team_sql == parse_sql_by_team(<<>>, sqlFile, 1)
    IN  IF changes_data = <<>> THEN sinks
        ELSE [json |-> SaveGroups(sinks.json, team_changes, 1),
              sql |-> SaveGroups(sinks.sql, team_sql, 1)]

\* ============================================================ system
\* ------------------------------------------------ inputs
\* the batches the legacy tracker appends to changes.json: the type of the
\* entry and the teams of its interfaces or change records
LogBatches ==
    {[type |-> "initial", teams |-> <<TeamA, Dash>>],
     [type |-> "initial", teams |-> <<TeamB>>],
     [type |-> "change", teams |-> <<TeamA>>],
     [type |-> "change", teams |-> <<None>>],
     [type |-> "change", teams |-> <<Absent, None>>],
     [type |-> "change", teams |-> <<Dash>>]}

\* an entry of changes.json; every record gets a payload of its own
LogEntry(timestamp, batch, n) ==
    [timestamp |-> timestamp, type |-> batch.type,
     items |-> [i \in DOMAIN batch.teams |->
                  [team |-> batch.teams[i], payload |-> 10 * n + i]]]

\* snapshots of interface-status.json
Setting(service, status, height) ==
    VMap((S_service :> VStr(service)) @@ (S_status :> VNum(status))
         @@ (S_latest_block_height :> VNum(height)))

Interface(team, status, settings) ==
    VMap((S_team :> VStr(team)) @@ (S_status :> VNum(status))
         @@ (S_settings :> VList(settings)))

InterfaceNoTeam(status) == VMap(S_status :> VNum(status))

Network(name, interfaces) ==
    VMap((S_network :> VStr(name)) @@ (S_interface :> VList(interfaces)))

Snapshot(interfaces, version, start_time) ==
    VMap((S_networks :> VList(<<Network(S_namada, interfaces),
                                Network(S_housefire, <<Interface(TeamB, start_time, <<>>)>>)>>))
         @@ (REQUIRED_VERSIONS :> VMap(S_namada :> VNum(version)))
         @@ (S_script_start_time :> VNum(start_time)))

Rpc == Setting(S_rpc, 1, 1)

StatusFiles ==
    {EmptyMap,
     Snapshot(<<Interface(TeamA, 1, <<Rpc>>), Interface(Dash, 1, <<Rpc, Rpc>>)>>, 1, 1),
     Snapshot(<<Interface(TeamA, 2, <<Rpc>>), Interface(Dash, 1, <<Rpc, Rpc>>)>>, 1, 2),
     Snapshot(<<Interface(TeamA, 1, <<Rpc>>), Interface(Dash, 2, <<Rpc>>)>>, 1, 1),
     Snapshot(<<Interface(TeamA, 1, <<Rpc>>), Interface(Dash, 1, <<Rpc, Rpc>>)>>, 2, 1),
     Snapshot(<<InterfaceNoTeam(1), Interface(TeamA, 1, <<>>)>>, 1, 1)}

\* change records of the legacy tracker, as changes.sql holds them
LegacyPath == <<S_networks, <<"0">>, S_interface, <<"1">>, S_settings, <<"1">>>>

LegacyChange(team, service) ==
    [team |-> team, service |-> service, field |-> LegacyPath[Len(LegacyPath)],
     full_path |-> build_readable_path(LegacyPath, team, service),
     type |-> "removed", old_value |-> Rpc, new_value |-> VNull]

SqlFiles ==
    {<<>>} \cup
    {<<generate_sql_statement(LegacyChange(t, sv), 1)>> :
        t \in {TeamA, Dash}, sv \in {S_rpc, None}}

\* the partition files that can exist under team-data/json and team-data/sql
Files ==
    {SafeTeamName(t) : t \in {TeamA, TeamB, Dash, None, REQUIRED_VERSIONS, UNKNOWN}}
    \cup {SafeTeamName(SqlTeamMatch(f[1])) : f \in SqlFiles \ {<<>>}}

\* ------------------------------------------------ actions
\* one run of gap_filler.py
GapFillerMain ==
    /\ calls < MaxCalls
    /\ calls + runs + rebuilds < MaxOps
    /\ LET r == GapFillerRun(stateStore, log, partsJson)
       IN  /\ stateStore' = r.store
           /\ partsJson' = r.parts
           /\ outcome' = r.outcome
           /\ new_entries' = r.new_entries
    /\ calls' = calls + 1
    /\ UNCHANGED <<diffVars, infoVars, merge>>
    /\ UNCHANGED <<log, clock, partsSql, teamState, statusFile, runs, rebuilds>>

\* the legacy tracker appends a batch, stamped with the current time (or, for a
\* malformed entry, without a timestamp)
LogAppend ==
    /\ Len(log) < MaxLog
    /\ \E timestamp \in {clock, EmptyTs}, batch \in LogBatches :
          log' = Append(log, LogEntry(timestamp, batch, Len(log) + 1))
    /\ outcome' = "none"
    /\ new_entries' = <<>>
    /\ UNCHANGED <<diffVars, infoVars, merge>>
    /\ UNCHANGED <<stateStore, partsJson, clock, calls, partsSql, teamState, statusFile,
                   runs, rebuilds>>

Tick ==
    /\ clock < MaxClock
    /\ clock' = clock + 1
    /\ UNCHANGED <<diffVars, infoVars, merge>>
    /\ UNCHANGED <<log, stateStore, partsJson, calls, outcome, new_entries, partsSql,
                   teamState, statusFile, runs, rebuilds>>

\* the operator sets 'migration_completed': true in gap_filler_state.json
MarkMigrationCompleted ==
    /\ ~load_gap_filler_state(stateStore).migration_completed
    /\ stateStore' =
          <<[load_gap_filler_state(stateStore) EXCEPT !.migration_completed = TRUE]>>
    /\ outcome' = "none"
    /\ new_entries' = <<>>
    /\ UNCHANGED <<diffVars, infoVars, merge>>
    /\ UNCHANGED <<log, partsJson, clock, calls, partsSql, teamState, statusFile,
                   runs, rebuilds>>

\* one run of team_interfaces_tracker.py on what interface-status.json holds
TrackerMain ==
    /\ runs < MaxRuns
    /\ calls + runs + rebuilds < MaxOps
    /\ \E source \in StatusFiles :
          LET r == TrackerRun(source, teamState,
                              [json |-> partsJson, sql |-> partsSql], clock)
          IN  /\ statusFile' = source
              /\ teamState' = r.state
              /\ partsJson' = r.sinks.json
              /\ partsSql' = r.sinks.sql
    /\ runs' = runs + 1
    /\ outcome' = "none"
    /\ new_entries' = <<>>
    /\ UNCHANGED <<diffVars, infoVars, merge>>
    /\ UNCHANGED <<log, stateStore, clock, calls, rebuilds>>

\* one run of parse_teams.py on changes.json and what changes.sql holds
ParseTeamsMain ==
    /\ rebuilds < MaxRebuilds
    /\ calls + runs + rebuilds < MaxOps
    /\ \E sqlFile \in SqlFiles :
          LET r == ParseTeamsRun(log, sqlFile, [json |-> partsJson, sql |-> partsSql])
          IN  /\ partsJson' = r.json
              /\ partsSql' = r.sql
    /\ rebuilds' = rebuilds + 1
    /\ outcome' = "none"
    /\ new_entries' = <<>>
    /\ UNCHANGED <<diffVars, infoVars, merge>>
    /\ UNCHANGED <<log, stateStore, clock, calls, teamState, statusFile, runs>>

InitStores ==
    {<<>>} \cup
    {<<[last_processed_timestamp |-> NoneTs, migration_completed |-> m,
        total_entries_processed |-> 0]>> : m \in BOOLEAN}

\* no run of gap_filler main is under way
MergeIdle ==
    [pc |-> "idle", state |-> DefaultState, fresh |-> <<>>, pending |-> <<>>,
     entries_processed |-> 0, parts |-> [f \in Files |-> <<>>]]

\* the files before any script has run
InitFiles ==
    /\ log = <<>>
    /\ partsJson = [f \in Files |-> <<>>]
    /\ partsSql = [f \in Files |-> <<>>]
    /\ teamState = EmptyMap
    /\ statusFile = EmptyMap
    /\ clock = 1
    /\ calls = 0
    /\ runs = 0
    /\ rebuilds = 0
    /\ outcome = "none"
    /\ new_entries = <<>>
    /\ merge = MergeIdle

Init ==
    /\ InitFiles
    /\ stateStore \in InitStores
    /\ diffOld = EmptyMap
    /\ diffNew = EmptyMap
    /\ diffOut = <<>>
    /\ returned = FALSE
    /\ edit = <<>>
    /\ infoPath = <<>>
    /\ infoState = EmptyMap
    /\ infoOut = <<>>

MergeNext == GapFillerMain \/ LogAppend \/ Tick \/ MarkMigrationCompleted

Next == MergeNext \/ TrackerMain \/ ParseTeamsMain

\* the merge controller and its source log alone
SpecMerge == Init /\ [][MergeNext]_vars

\* ------------------------------------------------ gap_filler main, write by write
\* main up to the append loop (lines 136-168): the early returns, or the locals
\* the loop starts with; parts is what the partitions held when the run began
MergeStart ==
    /\ merge.pc = "idle"
    /\ calls < MaxCalls
    /\ calls + runs + rebuilds < MaxOps
    /\ LET r == GapFillerRun(stateStore, log, partsJson)
       IN  IF r.outcome = "done"
           THEN /\ merge' = [pc |-> "append",
                             state |-> load_gap_filler_state(stateStore),
                             fresh |-> r.new_entries,
                             pending |-> parse_changes_by_team(r.new_entries),
                             entries_processed |-> 0,
                             parts |-> partsJson]
                /\ outcome' = "running"
           ELSE /\ merge' = MergeIdle
                /\ outcome' = r.outcome
    /\ new_entries' = <<>>
    /\ calls' = calls + 1
    /\ UNCHANGED <<diffVars, infoVars>>
    /\ UNCHANGED <<log, stateStore, partsJson, clock, partsSql, teamState, statusFile,
                   runs, rebuilds>>

\* one iteration of the append loop (lines 169-180)
MergeAppend ==
    /\ merge.pc = "append"
    /\ merge.pending # <<>>
    /\ IF merge.pending[1].data # <<>>
       THEN /\ partsJson' = append_to_json_file(partsJson, merge.pending[1].data,
                                                SafeTeamName(merge.pending[1].key))
            /\ merge' = [merge EXCEPT
                            !.pending = Tail(@),
                            !.entries_processed = @ + Len(merge.pending[1].data)]
       ELSE /\ partsJson' = partsJson
            /\ merge' = [merge EXCEPT !.pending = Tail(@)]
    /\ UNCHANGED <<diffVars, infoVars>>
    /\ UNCHANGED <<log, stateStore, clock, calls, outcome, new_entries, partsSql,
                   teamState, statusFile, runs, rebuilds>>

\* append_to_json_file raises on a sink write error (lines 39, 34): the
\* exception leaves main
MergeAppendFails ==
    /\ merge.pc = "append"
    /\ merge.pending # <<>>
    /\ merge.pending[1].data # <<>>
    /\ merge' = MergeIdle
    /\ outcome' = "failed"
    /\ UNCHANGED <<diffVars, infoVars>>
    /\ UNCHANGED <<log, stateStore, partsJson, clock, calls, new_entries, partsSql,
                   teamState, statusFile, runs, rebuilds>>

\* faulty variant: the state is saved whatever remains to be appended
LoopDoneAlways(pending) == TRUE

\* the append loop has gone through every team
LoopDone(pending) == pending = <<>>

\* "Update state" (lines 183-189), after the loop
MergeSave ==
    /\ merge.pc = "append"
    /\ LoopDone(merge.pending)
    /\ stateStore' = <<UpdatedState(merge.state, merge.fresh,
                                    EntriesProcessed(merge.entries_processed,
                                                     merge.fresh))>>
    /\ merge' = MergeIdle
    /\ outcome' = "done"
    /\ new_entries' = merge.fresh
    /\ UNCHANGED <<diffVars, infoVars>>
    /\ UNCHANGED <<log, partsJson, clock, calls, partsSql, teamState, statusFile,
                   runs, rebuilds>>

\* runs are serialized: the log and the gate change only between runs
MergeStepsNext ==
    \/ MergeStart
    \/ MergeAppend
    \/ MergeAppendFails
    \/ MergeSave
    \/ (merge.pc = "idle" /\ (LogAppend \/ Tick \/ MarkMigrationCompleted))

SpecMergeSteps == Init /\ [][MergeStepsNext]_vars

\* ------------------------------------------------ detect_changes on its own
\* snapshots: any nesting of maps, sequences and scalars down to a depth
Scalars == {VNull, VBool(TRUE), VNum(1)}

Lists(T) ==
    {VList(<<>>)} \cup {VList(<<t>>) : t \in T}
    \cup {VList(<<t, s>>) : t \in T, s \in Scalars}

Maps(T) ==
    {EmptyMap} \cup {VMap(S_a :> t) : t \in T}
    \cup {VMap((S_a :> t) @@ (S_latest_block_height :> s)) : t \in T, s \in Scalars}

Grow(T) == T \cup Lists(T) \cup Maps(T)

RECURSIVE Trees(_)
Trees(d) == IF d = 0 THEN Scalars ELSE Grow(Trees(d - 1))

\* a pair of snapshots that Python compares equal
InitDiff ==
    /\ InitFiles
    /\ stateStore = <<>>
    /\ diffOld \in Trees(MaxDepth)
    /\ diffNew \in {t \in Trees(MaxDepth) : PyEqual(diffOld, t)}
    /\ diffOut = <<>>
    /\ returned = FALSE
    /\ edit = <<>>
    /\ infoPath = <<>>
    /\ infoState = EmptyMap
    /\ infoOut = <<>>

\* detect_changes(old_state, new_state), on the pair drawn
DetectChangesCall ==
    /\ ~returned
    /\ diffOut' = DetectChanges(diffOld, diffNew)
    /\ returned' = TRUE
    /\ UNCHANGED <<diffOld, diffNew, edit, infoVars, merge, log, stateStore, partsJson,
                   clock, calls, outcome, new_entries, partsSql, teamState,
                   statusFile, runs, rebuilds>>

SpecDiff == InitDiff /\ [][DetectChangesCall]_vars

\* ------------------------------------------------ detect_changes after one edit
\* the structural paths of the nodes of a snapshot, as detect_changes builds
\* them: a map key, or str(i) for position i of a sequence
RECURSIVE Positions(_)
Positions(t) ==
    {<<>>} \cup
    (IF IsDict(t)
     THEN UNION {{<<key>> \o p : p \in Positions(t.m[key])} : key \in DOMAIN t.m}
     ELSE IF IsList(t)
     THEN UNION {{<<str(i - 1)>> \o p : p \in Positions(t.l[i])} : i \in DOMAIN t.l}
     ELSE {})

\* the node of t at a structural path
RECURSIVE At(_, _)
At(t, p) ==
    IF p = <<>> THEN t
    ELSE IF IsDict(t) THEN At(t.m[p[1]], Tail(p))
    ELSE At(t.l[int(p[1]) + 1], Tail(p))

\* t with the node at a structural path replaced by v
RECURSIVE Subst(_, _, _)
Subst(t, p, v) ==
    IF p = <<>> THEN v
    ELSE IF IsDict(t) THEN VMap([t.m EXCEPT ![p[1]] = Subst(@, Tail(p), v)])
    ELSE VList([t.l EXCEPT ![int(p[1]) + 1] = Subst(@, Tail(p), v)])

\* what a node is replaced by: a scalar, or a map or a sequence of scalars
Replacements ==
    Grow(Scalars)
    \cup {VMap(S_b :> t) : t \in Scalars}
    \cup {VMap((S_a :> t) @@ (S_b :> u)) : t, u \in Scalars}

\* the previous snapshot, before the source changed
InitEdit ==
    /\ InitFiles
    /\ stateStore = <<>>
    /\ diffOld \in Trees(MaxDepth)
    /\ diffNew = diffOld
    /\ diffOut = <<>>
    /\ returned = FALSE
    /\ edit = <<>>
    /\ infoPath = <<>>
    /\ infoState = EmptyMap
    /\ infoOut = <<>>

\* the snapshot source changes in one place between two tracker runs
ReplaceNode ==
    /\ edit = <<>>
    /\ ~returned
    /\ \E p \in Positions(diffNew), v \in Replacements :
          /\ v # At(diffNew, p)
          /\ diffNew' = Subst(diffNew, p, v)
          /\ edit' = <<[path |-> p, old |-> At(diffNew, p), new |-> v]>>
    /\ UNCHANGED <<diffOld, diffOut, returned, infoVars, merge, log, stateStore, partsJson,
                   clock, calls, outcome, new_entries, partsSql, teamState,
                   statusFile, runs, rebuilds>>

SpecEdit == InitEdit /\ [][ReplaceNode \/ DetectChangesCall]_vars

\* ------------------------------------------------ create_change_record on its own
\* structural paths: a root followed by up to MaxSteps steps, each a map key,
\* a sequence index, or a marker key with the index under it
InfoRoots ==
    {<<S_networks>>, <<S_networks, <<"0">> >>, <<S_networks, <<"1">> >>,
     <<REQUIRED_VERSIONS>>, <<S_a>>}

InfoSteps ==
    {<<<<"0">> >>, <<S_interface>>, <<S_interface, <<"0">> >>,
     <<S_interface, <<"1">> >>, <<S_settings>>, <<S_settings, <<"0">> >>,
     <<S_settings, <<"1">> >>, <<S_team>>, <<S_team, TeamA>>, <<S_service>>,
     <<S_service, S_rpc>>, <<S_a>>}

RECURSIVE InfoPaths(_)
InfoPaths(n) ==
    IF n = 0 THEN InfoRoots
    ELSE InfoPaths(n - 1) \cup {p \o c : p \in InfoPaths(n - 1), c \in InfoSteps}

\* current snapshots: none, two networks of interfaces with settings, an
\* interface whose team is null, and trees of other shapes
InfoStates ==
    {EmptyMap,
     VMap(S_networks :> VList(<<
        Network(S_namada, <<Interface(TeamA, 1, <<Rpc, VMap(S_status :> VNum(1))>>),
                            InterfaceNoTeam(1)>>),
        Network(S_housefire, <<Interface(TeamB, 1, <<>>)>>)>>)),
     VMap(S_networks :> VList(<<
        VMap(S_interface :> VList(<<VMap((S_team :> VNull)
                                         @@ (S_settings :> VList(<<Rpc>>)))>>))>>)),
     VMap(S_networks :> VList(<<VMap(S_interface :> VList(<<VNum(1)>>))>>)),
     VMap(S_networks :> EmptyMap),
     VMap(S_a :> VNum(1))}

InitInfo ==
    /\ InitFiles
    /\ stateStore = <<>>
    /\ diffOld = EmptyMap
    /\ diffNew = EmptyMap
    /\ diffOut = <<>>
    /\ returned = FALSE
    /\ edit = <<>>
    /\ infoPath \in InfoPaths(MaxSteps)
    /\ infoState \in InfoStates
    /\ infoOut = <<>>

\* create_change_record(path_parts, "modified", None, 1, state)
CreateChangeRecordCall ==
    /\ infoOut = <<>>
    /\ infoOut' = <<create_change_record(infoPath, "modified", VNull, VNum(1),
                                         infoState)>>
    /\ UNCHANGED <<infoPath, infoState, diffVars, merge, log, stateStore, partsJson, clock,
                   calls, outcome, new_entries, partsSql, teamState, statusFile,
                   runs, rebuilds>>

SpecInfo == InitInfo /\ [][CreateChangeRecordCall]_vars

\* ------------------------------------------------ the tracker run after run
\* what interface-status.json can hold from one run to the next: nothing, a
\* snapshot, the same with other ignored fields only, one with a changed
\* status, and two whose settings entries are numbers instead of maps
TrackerSources ==
    {EmptyMap,
     Snapshot(<<Interface(TeamA, 1, <<Rpc>>)>>, 1, 1),
     VMap([Snapshot(<<Interface(TeamA, 1, <<Setting(S_rpc, 1, 2)>>)>>, 1, 1).m
              EXCEPT ![S_script_start_time] = VNum(2)]),
     Snapshot(<<Interface(TeamA, 2, <<Rpc>>)>>, 1, 1),
     Snapshot(<<Interface(TeamA, 1, <<VNum(1)>>)>>, 1, 1),
     Snapshot(<<Interface(TeamA, 1, <<VNum(2)>>)>>, 1, 1)}

\* one run of team_interfaces_tracker.py on one of these sources
TrackerRerun ==
    /\ runs < MaxReruns
    /\ \E source \in TrackerSources :
          LET r == TrackerRun(source, teamState,
                              [json |-> partsJson, sql |-> partsSql], clock)
          IN  /\ statusFile' = source
              /\ teamState' = r.state
              /\ partsJson' = r.sinks.json
              /\ partsSql' = r.sinks.sql
    /\ runs' = runs + 1
    /\ outcome' = "none"
    /\ new_entries' = <<>>
    /\ UNCHANGED <<diffVars, infoVars, merge>>
    /\ UNCHANGED <<log, stateStore, clock, calls, rebuilds>>

SpecTracker == Init /\ [][TrackerRerun \/ Tick]_vars

\* the three scripts on the same team-data directory
Spec == Init /\ [][Next]_vars

\* ============================================================ claims
\* the stored cursor and counter, as gap_filler reads them
Cursor == load_gap_filler_state(stateStore).last_processed_timestamp
Total == load_gap_filler_state(stateStore).total_entries_processed
Active == load_gap_filler_state(stateStore).migration_completed

\* the record a partition entry written by gap_filler or parse_teams carries
Content(e) == IF e.type = "initial" THEN e.interface_data ELSE e.change_data

Occurrences(f, item) ==
    Cardinality({i \in DOMAIN partsJson[f] :
                    /\ DOMAIN partsJson[f][i] \cap {"interface_data", "change_data"} # {}
                    /\ Content(partsJson[f][i]) = item})

LogSorted ==
    \A i, j \in DOMAIN log : i <= j => log[i].timestamp <= log[j].timestamp
NoEmptyTimestamp == \A i \in DOMAIN log : log[i].timestamp # EmptyTs

\* C1: right after a completed merge call in the active state, a second merge
\* call on the unchanged source log appends nothing to any partition and
\* leaves MergeState as the first call left it.
C1_MergeIdempotent ==
    outcome = "done" =>
        LET second == GapFillerRun(stateStore, log, partsJson)
        IN  second.parts = partsJson /\ second.store = stateStore

\* C2: a merge call made while migration_completed is false (also when the
\* MergeState store is absent) writes no partition and leaves the store as it is.
C2_GatedNoWrites ==
    [][(calls' # calls /\ ~Active) =>
          (partsJson' = partsJson /\ stateStore' = stateStore)]_vars

C2_Witness ==
    /\ outcome = "gated"
    /\ calls >= 2
    /\ stateStore = <<>>
    /\ \E n \in DOMAIN log : \E i \in DOMAIN log[n].items : log[n].items[i].team = TeamA

\* C3: after the last merge call (no append since), every record of the log
\* whose team is not "-" occurs exactly once in the partition of its team and
\* in no other partition.  Stated for logs appended in timestamp order whose
\* entries all carry a timestamp.
C3_ExactlyOnce ==
    (outcome \in {"done", "nonew"} /\ LogSorted /\ NoEmptyTimestamp) =>
        \A n \in DOMAIN log : \A i \in DOMAIN log[n].items :
            LET item == log[n].items[i]
            IN  item.team # Dash =>
                  \A f \in Files :
                     Occurrences(f, item) =
                        IF f = SafeTeamName(GetTeam(item, REQUIRED_VERSIONS)) THEN 1 ELSE 0

\* C4: merging the log truncated after the entries with timestamp <= T2 and
\* then the whole log ends with the same partitions and MergeState as merging
\* the whole log in one call.  Stated for logs in timestamp order whose entries
\* all carry a timestamp.
C4_ReplayEquivalence ==
    (Active /\ LogSorted /\ NoEmptyTimestamp) =>
        \A T2 \in 1..MaxClock :
            LET chunk == SelectSeq(log, LAMBDA e : e.timestamp <= T2)
                first == GapFillerRun(stateStore, chunk, partsJson)
                second == GapFillerRun(first.store, log, first.parts)
                whole == GapFillerRun(stateStore, log, partsJson)
            IN  second.parts = whole.parts /\ second.store = whole.store

\* C7: the cursor never decreases, and a merge call that processed a non-empty
\* subsequence leaves it at the maximum timestamp of that subsequence.
C7_CursorMonotone ==
    [][/\ Cursor' >= Cursor
       /\ (calls' # calls /\ outcome' = "done") =>
             /\ \E i \in DOMAIN new_entries' : new_entries'[i].timestamp = Cursor'
             /\ \A i \in DOMAIN new_entries' : new_entries'[i].timestamp <= Cursor']_vars

C7_Witness ==
    /\ outcome = "done"
    /\ Cursor = 2
    /\ \A f \in Files : partsJson[f] = <<>>
    /\ \A n \in DOMAIN new_entries : \A i \in DOMAIN new_entries[n].items :
          new_entries[n].items[i].team = Dash

\* C8: the entries a merge call takes from the log are exactly those with a
\* timestamp strictly greater than the stored cursor, in log order, or all of
\* them when the cursor is unset (None); an entry whose timestamp equals the
\* stored cursor is not taken.
C8_CursorFilter ==
    stateStore # <<>> =>
        get_new_entries_since_timestamp(log, Cursor) =
            IF Cursor = NoneTs THEN log
            ELSE SelectSeq(log, LAMBDA e : e.timestamp > Cursor)

\* C9: a merge call that processes the subsequence S adds the number of raw
\* log entries of S to total_entries_processed.
C9_CountsRawEntries ==
    [][(calls' # calls /\ outcome' = "done") =>
          Total' = Total + Len(new_entries')]_vars

\* the records of S that reach a partition: those whose team is not "-"
RECURSIVE Partitioned(_)
Partitioned(entries) ==
    IF entries = <<>> THEN 0
    ELSE Cardinality({i \in DOMAIN entries[1].items : entries[1].items[i].team # Dash})
         + Partitioned(Tail(entries))

\* C9 as amended: the counter grows by the number of team entries appended to
\* the partitions, one per record of S whose team is not "-".
C9_CountsPartitionedRecords ==
    [][(calls' # calls /\ outcome' = "done") =>
          Total' = Total + Partitioned(new_entries')]_vars

C9_Witness ==
    /\ outcome = "done"
    /\ Len(new_entries) = 2
    /\ Partitioned(new_entries) = 1
    /\ Total = 1

\* the teams of the records a partition entry carries
EntryTeams(e) ==
    IF "changes" \in DOMAIN e THEN {e.changes[j].team : j \in DOMAIN e.changes}
    ELSE IF "team" \in DOMAIN e THEN {e.team}
    ELSE {e.change_data.team}

\* C5: after any tracker runs, merge calls and rebuilds, no partition holds a
\* change record or initial entry whose team is "-", and the partition named
\* for "-" has never been written.
C5_SentinelNeverPartitioned ==
    /\ partsJson[SafeTeamName(Dash)] = <<>>
    /\ partsSql[SafeTeamName(Dash)] = <<>>
    /\ \A f \in Files : \A i \in DOMAIN partsJson[f] :
            Dash \notin EntryTeams(partsJson[f][i])
    /\ \A f \in Files : \A i \in DOMAIN partsSql[f] : partsSql[f][i].team # Dash

\* C6: with the source log appended in non-decreasing timestamp order, after
\* any tracker runs and merge calls the entries of every partition are in
\* non-decreasing timestamp order.
C6_ChronologicalPartitions ==
    (LogSorted /\ NoEmptyTimestamp /\ rebuilds = 0) =>
        \A f \in Files : \A i, j \in DOMAIN partsJson[f] :
            i <= j => partsJson[f][i].timestamp <= partsJson[f][j].timestamp

\* C10: detect_changes returns an empty list for every pair of snapshots that
\* are deep-equal.
C10_DiffOfEqualsEmpty ==
    (returned /\ PyEqual(diffOld, diffNew)) => diffOut = <<>>

\* a map holding a list, diffed against an equal snapshot that is not identical
C10_Witness ==
    /\ returned
    /\ diffOut = <<>>
    /\ diffOld = VMap(S_a :> VList(<<VBool(TRUE), VNum(1)>>))
    /\ diffNew = VMap(S_a :> VList(<<VNum(1), VBool(TRUE)>>))

\* a node that is neither a map nor a sequence
IsScalar(v) == v.k \notin {"list", "map"}

\* detect_changes has returned on a snapshot in which one leaf scalar was
\* replaced by another scalar
LeafEdit ==
    /\ returned
    /\ edit # <<>>
    /\ IsScalar(edit[1].old)
    /\ IsScalar(edit[1].new)

\* the result is one record: modified, at the edited place, with the two values
OneModified ==
    /\ Len(diffOut) = 1
    /\ ~diffOut[1].raised
    /\ diffOut[1].type = "modified"
    /\ diffOut[1].old_value = edit[1].old
    /\ diffOut[1].new_value = edit[1].new
    /\ diffOut[1].full_path = JoinDots(edit[1].path)
    /\ diffOut[1].field = edit[1].path[Len(edit[1].path)]

C12_IgnoreSet ==
    (returned /\ ~Raises(diffOut)) =>
        \A i \in DOMAIN diffOut :
            /\ diffOut[i].field \notin IGNORED_FIELDS
            /\ \E p \in Positions(diffOld) \cup Positions(diffNew) :
                  /\ JoinDots(p) = diffOut[i].full_path
                  /\ \A j \in DOMAIN p : p[j] \notin IGNORED_FIELDS

\* a map inside a sequence changed both under an ignored key and under
\* another key, and only the other key is reported
C12_Witness ==
    /\ returned
    /\ diffOld = VList(<<VMap((S_a :> VNum(1)) @@ (S_latest_block_height :> VNum(1)))>>)
    /\ diffNew = VList(<<VMap((S_a :> VNull) @@ (S_latest_block_height :> VNull))>>)
    /\ Len(diffOut) = 1
    /\ diffOut[1].field = S_a

\* a partition entry that carries a record or an interface with no team: the
\* team is None, or the "team" key is absent
Unattributed(e) ==
    IF "changes" \in DOMAIN e
    THEN \E j \in DOMAIN e.changes : e.changes[j].team = None
    ELSE IF "change_data" \in DOMAIN e
    THEN e.change_data.team \in {None, Absent}
    ELSE IF "k" \in DOMAIN e.interface_data
    THEN GetStr(e.interface_data, S_team, None) = None
    ELSE e.interface_data.team \in {None, Absent}

\* C13: after any tracker runs, merge calls and rebuilds, every partition
\* entry whose record or interface has no team lies in the one fallback
\* partition, the one a None team is written to, and never in the partition
\* named for "-".
C13_UnattributedRouting ==
    \A f \in Files : \A i \in DOMAIN partsJson[f] :
        Unattributed(partsJson[f][i]) =>
            (f = SafeTeamName(None) /\ f # SafeTeamName(Dash))

\* a path detect_changes can pass to create_change_record when the current
\* snapshot is `state`: its parent is a container of the snapshot, and its
\* last segment a key of that map, present or removed, or an index of that
\* sequence, in range or removed
DiffPath(path_parts, state) ==
    /\ SubSeq(path_parts, 1, Len(path_parts) - 1) \in Positions(state)
    /\ \/ IsDict(At(state, SubSeq(path_parts, 1, Len(path_parts) - 1)))
       \/ /\ IsList(At(state, SubSeq(path_parts, 1, Len(path_parts) - 1)))
          /\ isdigit(path_parts[Len(path_parts)])

\* C14: on every path the diff produces and every current snapshot,
\* get_change_info returns without raising, and when the positional lookup
\* hits an absent key or an index out of range the result is
\* (None, None, last path segment).
C14_ClassifierTotal ==
    (infoOut # <<>> /\ DiffPath(infoPath, infoState)) =>
        /\ ~infoOut[1].raised
        /\ (infoPath[1] = S_networks
            /\ PositionalFallback(
                  infoPath, infoState,
                  [team |-> TeamMarkerRule(infoPath).team,
                   service |-> TeamMarkerRule(infoPath).service, err |-> "none"],
                  IF Truthy(infoState) THEN Contains(infoState, S_networks)
                  ELSE [err |-> "none", b |-> FALSE]).err \in {"KeyError", "IndexError"})
           => (infoOut[1].team = None /\ infoOut[1].service = None
               /\ infoOut[1].field = infoPath[Len(infoPath)])

\* the first segment of a dotted path
RootOf(full_path) ==
    IF \E i \in DOMAIN full_path : full_path[i] = "."
    THEN SubSeq(full_path, 1,
                (CHOOSE i \in DOMAIN full_path :
                    /\ full_path[i] = "."
                    /\ \A j \in 1..(i - 1) : full_path[j] # ".") - 1)
    ELSE full_path

\* the records of the result at or below one key or index of the root
RecsUnder(segment) == SelectSeq(diffOut, LAMBDA r : RootOf(r.full_path) = segment)

\* the one record of the result at a key or index of the root
OneRecordAt(segment, change_type, old_value, new_value) ==
    /\ Len(RecsUnder(segment)) = 1
    /\ RecsUnder(segment)[1].full_path = segment
    /\ RecsUnder(segment)[1].type = change_type
    /\ RecsUnder(segment)[1].old_value = old_value
    /\ RecsUnder(segment)[1].new_value = new_value

HasTeamMarker(path_parts) ==
    \E i \in 1..(Len(path_parts) - 1) : path_parts[i] = S_team

\* the service the claim names for a path with a team marker at team_idx: the
\* segment after the first "service" segment at or after the marker,
\* "interface" when there is no such segment; when that "service" segment is
\* the last one, `last` stands for the service
MarkerService(path_parts, team_idx, last) ==
    IF InPath(path_parts, S_service, team_idx)
    THEN IF IndexFrom(path_parts, S_service, team_idx) < Len(path_parts)
         THEN path_parts[IndexFrom(path_parts, S_service, team_idx) + 1]
         ELSE last
    ELSE S_interface

\* C17 (as stated): for every path whose root is not "required_versions" and
\* that holds a "team" segment followed by another segment, the team is the
\* segment after "team" and the service is the segment after the "service"
\* segment at or after the marker, "interface" when there is none.
C17_TeamMarkerAnyRoot ==
    (infoOut # <<>> /\ infoPath[1] # REQUIRED_VERSIONS /\ HasTeamMarker(infoPath)) =>
        /\ ~infoOut[1].raised
        /\ infoOut[1].team = infoPath[IndexFrom(infoPath, S_team, 1) + 1]
        /\ infoOut[1].service =
              MarkerService(infoPath, IndexFrom(infoPath, S_team, 1), infoOut[1].service)

\* C17 (amended): for every path whose root is "networks" and that holds a
\* "team" segment followed by another segment, the team is the segment after
\* the first "team" and the service is the segment after the first "service"
\* segment at or after that marker, None when that "service" segment ends the
\* path, and "interface" when there is none.
C17_TeamMarkerUnderNetworks ==
    (infoOut # <<>> /\ infoPath[1] = S_networks /\ HasTeamMarker(infoPath)) =>
        /\ ~infoOut[1].raised
        /\ infoOut[1].team = infoPath[IndexFrom(infoPath, S_team, 1) + 1]
        /\ infoOut[1].service =
              MarkerService(infoPath, IndexFrom(infoPath, S_team, 1), None)

\* the record for path networks.0.team.A.service.rpc.a
C17_Witness ==
    /\ infoOut # <<>>
    /\ infoPath = <<S_networks, <<"0">>, S_team, TeamA, S_service, S_rpc, S_a>>
    /\ infoOut[1].team = TeamA
    /\ infoOut[1].service = S_rpc

\* a path networks.k.interface.i... that names no team, on a snapshot that
\* holds a team for interface i of network k
PositionalPath(path_parts, state) ==
    /\ Len(path_parts) >= 4
    /\ path_parts[1] = S_networks
    /\ isdigit(path_parts[2])
    /\ path_parts[3] = S_interface
    /\ isdigit(path_parts[4])
    /\ TeamMarkerRule(path_parts).team = None
    /\ SubSeq(path_parts, 1, 4) \o <<S_team>> \in Positions(state)

\* C18: for a path networks.k.interface.i... that names no team, the team is
\* the team of interface i of network k of the current snapshot, for every k;
\* the service is the service of settings entry j of that interface when the
\* path goes on with settings.j and that entry names one, and "interface"
\* when no "settings" segment with an index occurs.
C18_PositionalFallback ==
    (infoOut # <<>> /\ PositionalPath(infoPath, infoState)) =>
        /\ ~infoOut[1].raised
        /\ infoOut[1].team = StrOf(At(infoState, SubSeq(infoPath, 1, 4) \o <<S_team>>))
        /\ (/\ Len(infoPath) >= 6
            /\ infoPath[5] = S_settings
            /\ isdigit(infoPath[6])
            /\ SubSeq(infoPath, 1, 6) \o <<S_service>> \in Positions(infoState))
           => infoOut[1].service =
                 StrOf(At(infoState, SubSeq(infoPath, 1, 6) \o <<S_service>>))
        /\ (~\E i \in 1..(Len(infoPath) - 1) :
                 infoPath[i] = S_settings /\ isdigit(infoPath[i + 1]))
           => infoOut[1].service = S_interface

\* the prefix namada.operator.<team>. of the attributed templates
OperatorPrefix(team) == S_namada \o Dot \o S_operator \o Dot \o team \o Dot

C20_StateWrittenLast ==
    [][(calls' # calls \/ merge.pc # "idle") =>
          /\ stateStore' # stateStore =>
                /\ merge.pc = "append"
                /\ merge.pending = <<>>
                /\ merge'.pc = "idle"
                /\ outcome' = "done"
                /\ partsJson' = partsJson
                /\ partsJson = GapFillerRun(stateStore, log, merge.parts).parts
                /\ stateStore' = GapFillerRun(stateStore, log, merge.parts).store
          /\ outcome' \in {"gated", "noload", "nonew", "failed", "running"} =>
                stateStore' = stateStore]_vars

\* a call that appended to two partitions has saved its state
C20_Witness ==
    /\ outcome = "done"
    /\ merge.pc = "idle"
    /\ Cardinality({f \in Files : partsJson[f] # <<>>}) >= 2
    /\ Cursor # NoneTs
    /\ Total >= 2

\* a snapshot without its ignored fields, at every depth
RECURSIVE WithoutIgnored(_)
WithoutIgnored(v) ==
    IF v.k = "map"
    THEN VMap([key \in DOMAIN v.m \ IGNORED_FIELDS |-> WithoutIgnored(v.m[key])])
    ELSE IF v.k = "list"
    THEN VList([i \in DOMAIN v.l |-> WithoutIgnored(v.l[i])])
    ELSE v

\* C21: every tracker run that loads a current snapshot leaves that snapshot,
\* filtered to the tracked networks, in the previous-snapshot store; and a
\* run that directly follows a run that loaded a snapshot, on a source that
\* is unchanged or differs only in ignored fields, appends to no JSON or SQL
\* partition and is not an initial run.
C21_RerunIsNoOp ==
    [][(runs' = runs + 1 /\ Truthy(statusFile')) =>
          /\ teamState' = filter_networks(statusFile', TRACKED_NETWORKS)
          /\ (/\ Truthy(statusFile)
              /\ PyEqual(WithoutIgnored(statusFile), WithoutIgnored(statusFile')))
             => /\ partsJson' = partsJson
                /\ partsSql' = partsSql
                /\ Truthy(teamState)]_vars
====
